---- MODULE Spec2Model ----
(***************************************************************************)
(* Model of the Zerodha login automation: the OAuth flow                   *)
(* (src/zerodha_api_login.py), the dashboard flow                          *)
(* (src/kite_dashboard_login.py), the notifier (src/notify.py) and the     *)
(* token store (src/token_manager.py).                                     *)
(*                                                                         *)
(* Four specifications:                                                    *)
(*   Spec          the batch runner (main) and the per-account orchestrator*)
(*                 (perform_oauth_login / perform_login_for_account)       *)
(*   SpecLocator   find_otp_fields, one polling iteration per step         *)
(*   SpecInjector  enter_otp / enter_otp_into_fields, one field per step   *)
(*   SpecPoller    wait_for_request_token, one URL read per step           *)
(*   SpecContinue  the continuation step (the click after the OTP)         *)
(*   SpecLive      Spec with the script's steps taken whenever possible    *)
(***************************************************************************)
EXTENDS Integers, Sequences, FiniteSets, TLC

\* ------------------------------------------------------------------ bounds
MaxAccounts == 2
MaxBeats == 2
MaxFields == 2

\* ------------------------------------------------------------ configuration
Flows == {"oauth", "dashboard"}
Uids == {"U1", "U2"}

\* The NOTIFY_EMAIL / SMTP_* environment read by send_email.
NotifyCfgs == {"no_addr", "bad_port", "ok"}

RECURSIVE SeqsUpTo(_, _)
SeqsUpTo(S, n) ==
    IF n = 0 THEN {<<>>}
    ELSE LET shorter == SeqsUpTo(S, n - 1)
         IN  shorter \cup {Append(s, x) : s \in {t \in shorter : Len(t) = n - 1}, x \in S}

VARIABLES
    flow,        \* which script runs
    apiOk,       \* API_KEY and API_SECRET both set
    keepMinutes, \* KEEP_BROWSER_MINUTES (oauth flow only)
    notifyCfg,   \* notifier environment
    csv,         \* the file accounts.csv: whether it exists, and its rows
    accounts,    \* the list read_accounts returned
    mainPc,      \* position of main
    idx,         \* position of main's for loop in accounts (1-based)
    started,     \* number of account attempts started so far
    results,     \* per account position: how its attempt ended
    att,         \* the running attempt: locals of perform_*_login
    store,       \* client ids the Token Store holds a token for
    liveAgents,  \* browsers created and not quit
    cancelled,   \* a KeyboardInterrupt has been delivered
    loc,         \* one call of find_otp_fields (SpecLocator)
    inj,         \* one call of enter_otp / enter_otp_into_fields (SpecInjector)
    pol,         \* one call of wait_for_request_token (SpecPoller)
    con          \* one run of the continuation step (SpecContinue)

vars == <<flow, apiOk, keepMinutes, notifyCfg, csv, accounts, mainPc, idx,
          started, results, att, store, liveAgents, cancelled, loc, inj, pol,
          con>>

config == <<flow, apiOk, keepMinutes, notifyCfg, csv>>

\* The state of the batch run, but for flow.
runVars == <<apiOk, keepMinutes, notifyCfg, csv, accounts, mainPc, idx,
             started, results, att, store, liveAgents, cancelled>>

\* The component calls followed on their own.
callVars == <<loc, inj, pol, con>>

NoCall == [pc |-> "none"]

\* ------------------------------------------------------------ account list
\* A row of accounts.csv: the user id and whether the password or the TOTP
\* secret is missing (empty).
Rows == [uid : Uids, missing : BOOLEAN]

\* The file named by ACCOUNTS_CSV: absent, or present with its rows.
CsvFiles ==
    {[exists |-> FALSE, rows |-> <<>>]}
        \cup {[exists |-> TRUE, rows |-> r] : r \in SeqsUpTo(Rows, MaxAccounts)}

\* read_accounts of the OAuth flow: [] for an absent file (lines 84-86), else
\* the complete rows, in file order (lines 90-97).
OAuthReadAccounts(file) ==
    IF ~file.exists THEN <<>>
    ELSE SelectSeq(file.rows, LAMBDA r : ~r.missing)

\* read_accounts of the dashboard flow: open() raises for an absent file
\* (line 301).
DashReadRaises(file) == ~file.exists

\* read_accounts of the dashboard flow appends every row (lines 302-303).
DashReadAccounts(file) == file.rows

\* --------------------------------------------------------------- notifier
\* send_email: no recipient -> silently returns; int(SMTP_PORT) is evaluated
\* outside the try and raises on a non-numeric port; a delivery error is
\* caught and printed.
SendEmailRaises == notifyCfg = "bad_port"

\* ------------------------------------------------------- attempt record
FreshAttempt ==
    [pc |-> "build", driver |-> "none", submitted |-> FALSE, fields |-> -1,
     injected |-> FALSE,
     otpOk |-> FALSE, clickTried |-> FALSE, clicked |-> FALSE, rt |-> "unset",
     probeOk |-> FALSE, exchanged |-> 0, accessTok |-> "unset", saveCalls |-> 0,
     saved |-> FALSE, saveRaised |-> FALSE, shots |-> 0, mails |-> 0,
     beats |-> 0, beatFailed |-> FALSE, inKeepAlive |-> FALSE]

IdleAttempt == [FreshAttempt EXCEPT !.pc = "idle"]

\* screenshot(driver, prefix): one capture requested from the agent; a failing
\* save is swallowed inside screenshot, so the call itself never raises.
Shot(a) == [a EXCEPT !.shots = @ + 1]

\* One call of send_email.
Mail(a) == [a EXCEPT !.mails = @ + 1]

Init ==
    /\ flow \in Flows
    /\ apiOk \in BOOLEAN
    /\ keepMinutes \in {0, 1}
    /\ notifyCfg \in NotifyCfgs
    /\ csv \in CsvFiles
    /\ accounts = <<>>
    /\ mainPc = "config"
    /\ idx = 0
    /\ started = 0
    /\ results = <<>>
    /\ att = IdleAttempt
    /\ store = {}
    /\ liveAgents = 0
    /\ cancelled = FALSE
    /\ loc = NoCall /\ inj = NoCall /\ pol = NoCall /\ con = NoCall

\* ===================================================== batch runner (main)
\* main, lines 415-417 (oauth) / 308-310 (dashboard): a missing API key or
\* secret ends the run.
MainCheckConfig ==
    /\ mainPc = "config"
    /\ mainPc' = IF apiOk THEN "load" ELSE "done"
    /\ UNCHANGED <<config, accounts, idx, started, results, att, store,
                   liveAgents, cancelled, callVars>>

\* accounts = read_accounts() (line 419 oauth / 312 dashboard), called outside
\* any try: an exception of read_accounts ends the process; else the for loop
\* starts at the first account.
MainLoadAccounts ==
    /\ mainPc = "load"
    /\ IF flow = "dashboard" /\ DashReadRaises(csv)
       THEN /\ mainPc' = "aborted"
            /\ UNCHANGED <<accounts, results, idx>>
       ELSE /\ accounts' = IF flow = "oauth" THEN OAuthReadAccounts(csv)
                                             ELSE DashReadAccounts(csv)
            /\ results' = [i \in 1..Len(accounts') |-> "none"]
            /\ idx' = 1
            /\ mainPc' = "loop"
    /\ UNCHANGED <<config, started, att, store, liveAgents, cancelled,
                   callVars>>

\* One turn of "for uid, pwd, totp in accounts": the list is exhausted, or
\* perform_oauth_login / perform_login_for_account is called for accounts[idx].
MainNext ==
    /\ mainPc = "loop"
    /\ \/ /\ idx > Len(accounts)
          /\ mainPc' = "done"
          /\ UNCHANGED <<started, att>>
       \/ /\ idx <= Len(accounts)
          /\ mainPc' = "attempt"
          /\ started' = started + 1
          /\ att' = FreshAttempt
    /\ UNCHANGED <<config, accounts, idx, results, store, liveAgents, cancelled,
                   callVars>>

\* time.sleep(4) between accounts, then the next turn of the loop. The locals
\* of the attempt that returned are gone.
MainPause ==
    /\ mainPc = "pause"
    /\ idx' = idx + 1
    /\ mainPc' = "loop"
    /\ att' = IdleAttempt
    /\ UNCHANGED <<config, accounts, started, results, store, liveAgents,
                   cancelled, callVars>>

\* ------------------------------------------------ how an attempt ends
\* What stays as it is during a step of an attempt.
AttemptFrame == UNCHANGED <<config, accounts, idx, started, cancelled, callVars>>

\* The attempt goes on with locals a.
Goto(a, pc) ==
    /\ att' = [a EXCEPT !.pc = pc]
    /\ UNCHANGED <<results, liveAgents, mainPc>>

\* OAuthReturn without the finally block: the driver stays as it is.
OAuthReturn_NoQuit(res, a) ==
    /\ att' = [a EXCEPT !.pc = "idle"]
    /\ results' = [results EXCEPT ![idx] = res]
    /\ mainPc' = "pause"
    /\ UNCHANGED liveAgents

\* perform_oauth_login returns res: the finally block (lines 404-410) quits
\* the driver if one was built; main logs the result and pauses.
OAuthReturn(res, a) ==
    /\ att' = [a EXCEPT !.pc = "idle",
                        !.driver = IF a.driver = "live" THEN "quit" ELSE @]
    /\ liveAgents' = IF a.driver = "live" THEN liveAgents - 1 ELSE liveAgents
    /\ results' = [results EXCEPT ![idx] = res]
    /\ mainPc' = "pause"

\* An exception reaches "except WebDriverException" / "except Exception"
\* (lines 388-403): screenshot if a driver exists, return False.
OAuthHandler(a) ==
    OAuthReturn("False", IF a.driver = "live" THEN Shot(a) ELSE a)

\* "send_email(...); return False" of a failure branch: send_email may itself
\* raise, and then the outer handler runs.
OAuthNotifyFail(a) ==
    IF SendEmailRaises THEN OAuthHandler(Mail(a))
                       ELSE OAuthReturn("False", Mail(a))

\* perform_login_for_account returns res; the driver is left open (lines
\* 291-294); main ignores the result and pauses.
DashReturn(res, a) ==
    /\ att' = [a EXCEPT !.pc = "idle"]
    /\ results' = [results EXCEPT ![idx] = res]
    /\ mainPc' = "pause"
    /\ UNCHANGED liveAgents

\* "except Exception" of perform_login_for_account (lines 286-289).
DashHandler(a) == DashReturn("False", Shot(a))

\* An exception leaves perform_login_for_account; main has no try, the
\* process ends.
DashEscape(a) ==
    /\ att' = [a EXCEPT !.pc = "idle"]
    /\ results' = [results EXCEPT ![idx] = "raised"]
    /\ mainPc' = "aborted"
    /\ UNCHANGED liveAgents

\* ============================== perform_oauth_login (src/zerodha_api_login.py)
\* Lines 248-255: the login URL is built and build_driver() creates the agent.
\* A failure here leaves driver = None: the handler takes no screenshot and
\* the finally block quits nothing.
OAuthBuild ==
    /\ flow = "oauth" /\ mainPc = "attempt" /\ att.pc = "build"
    /\ \/ /\ att' = [att EXCEPT !.pc = "creds", !.driver = "live"]
          /\ liveAgents' = liveAgents + 1
          /\ UNCHANGED <<results, mainPc>>
       \/ OAuthHandler(att)
    /\ UNCHANGED store
    /\ AttemptFrame

\* Lines 257-273: navigate, fill user id and password, click submit.
OAuthCreds ==
    /\ flow = "oauth" /\ mainPc = "attempt" /\ att.pc = "creds"
    /\ \/ Goto([att EXCEPT !.submitted = TRUE], "locate")
       \/ OAuthHandler(att)
    /\ UNCHANGED store
    /\ AttemptFrame

\* OAuthNoFields without its return: the flow goes on to the OTP step.
OAuthNoFields_FallThrough(a) == Goto(a, "genotp")

\* Lines 277-281: no OTP field: screenshot, notification, return False.
OAuthNoFields(a) == OAuthNotifyFail(Shot(a))

\* Lines 275-281: fields = find_otp_fields(driver, timeout=18), which never
\* raises and returns a list of n >= 0 handles.
OAuthLocate ==
    /\ flow = "oauth" /\ mainPc = "attempt" /\ att.pc = "locate"
    /\ \E n \in 0..MaxFields :
          LET a == [att EXCEPT !.fields = n]
          IN  IF n = 0 THEN OAuthNoFields(a) ELSE Goto(a, "genotp")
    /\ UNCHANGED store
    /\ AttemptFrame

\* Lines 283-289: the TOTP is generated; a failure returns False at once.
OAuthGenOtp ==
    /\ flow = "oauth" /\ mainPc = "attempt" /\ att.pc = "genotp"
    /\ \/ Goto(att, "enter")
       \/ OAuthReturn("False", att)
    /\ UNCHANGED store
    /\ AttemptFrame

\* Lines 291-297: ok = enter_otp(driver, otp, fields); enter_otp catches every
\* exception and returns False.
OAuthEnter ==
    /\ flow = "oauth" /\ mainPc = "attempt" /\ att.pc = "enter"
    /\ \/ Goto([att EXCEPT !.injected = TRUE, !.otpOk = TRUE], "continue")
       \/ OAuthNotifyFail(Shot([att EXCEPT !.injected = TRUE]))
    /\ UNCHANGED store
    /\ AttemptFrame

\* OAuthAfterContinue treating a step that clicked nothing as an error of the
\* attempt.
OAuthAfterContinue_Aborts(a) ==
    IF a.clicked THEN Goto(a, "poll") ELSE OAuthHandler(a)

\* Lines 323-326: whatever clicked holds, the flow logs it and goes on to
\* wait_for_request_token.
OAuthAfterContinue(a) == Goto(a, "poll")

\* Lines 299-323: the continuation step; every failure in it is swallowed
\* (lines 311-314 and 321-322), clicked tells whether a click returned.
OAuthContinue ==
    /\ flow = "oauth" /\ mainPc = "attempt" /\ att.pc = "continue"
    /\ \E c \in BOOLEAN :
          OAuthAfterContinue([att EXCEPT !.clickTried = TRUE, !.clicked = c])
    /\ UNCHANGED store
    /\ AttemptFrame

\* OAuthNoToken going on to the exchange with the empty token.
OAuthNoToken_Exchanges(a) == Goto(a, "exchange")

\* Line 327: "if not rt": the dashboard probe is next, not the exchange.
OAuthNoToken(a) == Goto(a, "probe")

\* Lines 325-327: rt, status, final_url = wait_for_request_token(driver, 30).
\* The poller returns a token, returns none, or raises (its last URL read is
\* outside any try).
OAuthPoll ==
    /\ flow = "oauth" /\ mainPc = "attempt" /\ att.pc = "poll"
    /\ \/ Goto([att EXCEPT !.rt = "token"], "exchange")
       \/ OAuthNoToken([att EXCEPT !.rt = "none"])
       \/ OAuthHandler([att EXCEPT !.rt = "raised"])
    /\ UNCHANGED store
    /\ AttemptFrame

\* Lines 327-341: no request token: the dashboard-only markup is probed for
\* 6 seconds. Found: screenshot, return True. Not found: screenshot,
\* notification, return False.
OAuthProbe ==
    /\ flow = "oauth" /\ mainPc = "attempt" /\ att.pc = "probe"
    /\ \/ OAuthReturn("True", Shot([att EXCEPT !.probeOk = TRUE]))
       \/ OAuthNotifyFail(Shot(att))
    /\ UNCHANGED store
    /\ AttemptFrame

\* OAuthExchangeFailed without its return: the flow goes on to the Token Store.
OAuthExchangeFailed_GoesOn(a) == Goto(a, "save")

\* Lines 349-353 and 356-360: the exchange failed: screenshot, notification,
\* return False.
OAuthExchangeFailed(a) == OAuthNotifyFail(Shot(a))

\* Lines 345-360: kite2.generate_session(rt, api_secret): it raises, or its
\* response has no access token, or it has one.
OAuthExchange ==
    /\ flow = "oauth" /\ mainPc = "attempt" /\ att.pc = "exchange"
    /\ LET a == [att EXCEPT !.exchanged = @ + 1]
       IN  \/ OAuthExchangeFailed([a EXCEPT !.accessTok = "raised"])
           \/ OAuthExchangeFailed([a EXCEPT !.accessTok = "missing"])
           \/ Goto([a EXCEPT !.accessTok = "token"], "save")
    /\ UNCHANGED store
    /\ AttemptFrame

\* Lines 371-372 and 386: after the token is stored, the keep-alive loop is
\* entered if KEEP_BROWSER_MINUTES > 0, else the attempt returns True.
OAuthAfterSave(a) ==
    IF keepMinutes > 0 THEN Goto([a EXCEPT !.inKeepAlive = TRUE], "keepalive")
                       ELSE OAuthReturn("True", a)

\* OAuthSaveFailed with the exception swallowed: the flow goes on as after a
\* successful save.
OAuthSaveFailed_Swallowed(a) == OAuthAfterSave(a)

\* Lines 367-369: save_encrypted_token (or the send_email after it) raised:
\* return False.
OAuthSaveFailed(a) == OAuthReturn("False", a)

\* Lines 362-369: save_encrypted_token(user_id, access_token), then the
\* "token updated" notification, both inside one try.
OAuthSave ==
    /\ flow = "oauth" /\ mainPc = "attempt" /\ att.pc = "save"
    /\ LET a == [att EXCEPT !.saveCalls = @ + 1]
       IN  \/ /\ OAuthSaveFailed([a EXCEPT !.saveRaised = TRUE])
              /\ UNCHANGED store
           \/ /\ store' = store \cup {accounts[idx].uid}
              /\ LET b == Mail([a EXCEPT !.saved = TRUE])
                 IN  IF SendEmailRaises THEN OAuthSaveFailed(b)
                                        ELSE OAuthAfterSave(b)
    /\ AttemptFrame

\* Lines 376-383: one heartbeat: a no-op script, which returns or raises (the
\* exception is swallowed), and a 30 second sleep. MaxBeats caps the
\* iterations the model follows.
OAuthHeartbeat ==
    /\ flow = "oauth" /\ mainPc = "attempt" /\ att.pc = "keepalive"
    /\ att.beats < MaxBeats
    /\ \/ Goto([att EXCEPT !.beats = @ + 1], "keepalive")
       \/ Goto([att EXCEPT !.beats = @ + 1, !.beatFailed = TRUE], "keepalive")
    /\ UNCHANGED store
    /\ AttemptFrame

\* Lines 376 and 386: the deadline has passed (the first turn always runs:
\* the deadline is at least a minute away): return True.
OAuthKeepAliveDone ==
    /\ flow = "oauth" /\ mainPc = "attempt" /\ att.pc = "keepalive"
    /\ att.beats >= 1
    /\ OAuthReturn("True", att)
    /\ UNCHANGED store
    /\ AttemptFrame

\* ================= perform_login_for_account (src/kite_dashboard_login.py)
\* Line 221: build_driver() is called before the try: its exception leaves
\* the function.
DashBuild ==
    /\ flow = "dashboard" /\ mainPc = "attempt" /\ att.pc = "build"
    /\ \/ /\ att' = [att EXCEPT !.pc = "creds", !.driver = "live"]
          /\ liveAgents' = liveAgents + 1
          /\ UNCHANGED <<results, mainPc>>
       \/ DashEscape(att)
    /\ UNCHANGED store
    /\ AttemptFrame

\* Lines 224-241: navigate, fill user id and password, click submit.
DashCreds ==
    /\ flow = "dashboard" /\ mainPc = "attempt" /\ att.pc = "creds"
    /\ \/ Goto([att EXCEPT !.submitted = TRUE], "locate")
       \/ DashHandler(att)
    /\ UNCHANGED store
    /\ AttemptFrame

\* Lines 244-247: no OTP field: screenshot, return False.
DashNoFields(a) == DashReturn("False", Shot(a))

\* Lines 243-247: fields = find_otp_fields(driver).
DashLocate ==
    /\ flow = "dashboard" /\ mainPc = "attempt" /\ att.pc = "locate"
    /\ \E n \in 0..MaxFields :
          LET a == [att EXCEPT !.fields = n]
          IN  IF n = 0 THEN DashNoFields(a) ELSE Goto(a, "genotp")
    /\ UNCHANGED store
    /\ AttemptFrame

\* Lines 249-250: the TOTP is generated inside the outer try.
DashGenOtp ==
    /\ flow = "dashboard" /\ mainPc = "attempt" /\ att.pc = "genotp"
    /\ \/ Goto(att, "enter")
       \/ DashHandler(att)
    /\ UNCHANGED store
    /\ AttemptFrame

\* Lines 252-255: enter_otp_into_fields returns True or False.
DashEnter ==
    /\ flow = "dashboard" /\ mainPc = "attempt" /\ att.pc = "enter"
    /\ \/ Goto([att EXCEPT !.injected = TRUE, !.otpOk = TRUE], "continue")
       \/ DashReturn("False", Shot([att EXCEPT !.injected = TRUE]))
    /\ UNCHANGED store
    /\ AttemptFrame

\* Line 257: click_continue_button(driver); its result is dropped.
DashContinue ==
    /\ flow = "dashboard" /\ mainPc = "attempt" /\ att.pc = "continue"
    /\ \E c \in BOOLEAN :
          Goto([att EXCEPT !.clickTried = TRUE, !.clicked = c], "poll")
    /\ UNCHANGED store
    /\ AttemptFrame

\* Lines 259-271: rt, status, url = wait_for_request_token(driver); whatever
\* it returns, success is logged and the 24 hour loop is entered.
DashPoll ==
    /\ flow = "dashboard" /\ mainPc = "attempt" /\ att.pc = "poll"
    /\ \/ \E r \in {"token", "none"} :
             Goto([att EXCEPT !.rt = r, !.inKeepAlive = TRUE], "keepalive")
       \/ DashHandler([att EXCEPT !.rt = "raised"])
    /\ UNCHANGED store
    /\ AttemptFrame

\* Lines 273-281: one heartbeat: two scroll scripts, which return or raise (the
\* exception is swallowed), and a 30 second sleep. MaxBeats caps the
\* iterations the model follows.
DashHeartbeat ==
    /\ flow = "dashboard" /\ mainPc = "attempt" /\ att.pc = "keepalive"
    /\ att.beats < MaxBeats
    /\ \/ Goto([att EXCEPT !.beats = @ + 1], "keepalive")
       \/ Goto([att EXCEPT !.beats = @ + 1, !.beatFailed = TRUE], "keepalive")
    /\ UNCHANGED store
    /\ AttemptFrame

\* Lines 273 and 283-284: the 24 hours are over (the first turn always
\* runs): return True.
DashKeepAliveDone ==
    /\ flow = "dashboard" /\ mainPc = "attempt" /\ att.pc = "keepalive"
    /\ att.beats >= 1
    /\ DashReturn("True", att)
    /\ UNCHANGED store
    /\ AttemptFrame

\* ====================================================== KeyboardInterrupt
\* Steps of the dashboard flow that run (partly) inside a bare "except:",
\* which also catches KeyboardInterrupt.
DashBareExcept == {"locate", "enter", "continue", "poll", "keepalive"}

\* KeyboardInterrupt anywhere else in perform_oauth_login: no handler in the
\* function catches it, the finally block quits the driver, main's
\* "except KeyboardInterrupt" breaks the loop (lines 425-427).
OAuthInterruptInAttempt(a) ==
    /\ att' = [a EXCEPT !.pc = "idle",
                        !.driver = IF a.driver = "live" THEN "quit" ELSE @]
    /\ liveAgents' = IF a.driver = "live" THEN liveAgents - 1 ELSE liveAgents
    /\ results' = [results EXCEPT ![idx] = "interrupted"]
    /\ mainPc' = "done"

\* OAuthInterruptInKeepAlive without the handler of line 384: the interrupt
\* leaves the function as it does anywhere else.
OAuthInterruptInKeepAlive_Propagates(a) == OAuthInterruptInAttempt(a)

\* KeyboardInterrupt inside the keep-alive loop of perform_oauth_login (lines
\* 384-386): logged, and the attempt returns True to main's loop.
OAuthInterruptInKeepAlive(a) == OAuthReturn("True", a)

\* The user presses Ctrl-C once, at any point of the run.
Interrupt ==
    /\ ~cancelled
    /\ mainPc \notin {"done", "aborted"}
    /\ cancelled' = TRUE
    /\ \/ \* outside any try of main: the process ends with the traceback
          /\ mainPc # "attempt"
          /\ mainPc' = "aborted"
          /\ UNCHANGED <<att, results, liveAgents>>
       \/ /\ mainPc = "attempt" /\ flow = "oauth" /\ att.pc = "keepalive"
          /\ OAuthInterruptInKeepAlive(att)
       \/ /\ mainPc = "attempt" /\ flow = "oauth" /\ att.pc # "keepalive"
          /\ OAuthInterruptInAttempt(att)
       \/ \* dashboard flow, swallowed by a bare except: the step goes on
          /\ mainPc = "attempt" /\ flow = "dashboard"
          /\ att.pc \in DashBareExcept
          /\ UNCHANGED <<att, results, liveAgents, mainPc>>
       \/ \* dashboard flow, not caught anywhere: the process ends
          /\ mainPc = "attempt" /\ flow = "dashboard"
          /\ att' = [att EXCEPT !.pc = "idle"]
          /\ results' = [results EXCEPT ![idx] = "interrupted"]
          /\ mainPc' = "aborted"
          /\ UNCHANGED liveAgents
    /\ UNCHANGED <<config, accounts, idx, started, store, callVars>>

Next ==
    \/ MainCheckConfig \/ MainLoadAccounts \/ MainNext \/ MainPause
    \/ OAuthBuild \/ OAuthCreds \/ OAuthLocate \/ OAuthGenOtp \/ OAuthEnter
    \/ OAuthContinue \/ OAuthPoll \/ OAuthProbe \/ OAuthExchange \/ OAuthSave
    \/ OAuthHeartbeat \/ OAuthKeepAliveDone
    \/ DashBuild \/ DashCreds \/ DashLocate \/ DashGenOtp \/ DashEnter
    \/ DashContinue \/ DashPoll \/ DashHeartbeat \/ DashKeepAliveDone
    \/ Interrupt

Spec == Init /\ [][Next]_vars

\* The steps of the script itself. Each of them ends within a bounded time:
\* every wait of the code has a timeout (WebDriverWait 25 s / 20 s / 6 s,
\* find_otp_fields 18 s / 15 s, wait_for_request_token 30 s, page load 60 s,
\* time.sleep), and the keep-alive loop has a deadline.
Step ==
    \/ MainCheckConfig \/ MainLoadAccounts \/ MainNext \/ MainPause
    \/ OAuthBuild \/ OAuthCreds \/ OAuthLocate \/ OAuthGenOtp \/ OAuthEnter
    \/ OAuthContinue \/ OAuthPoll \/ OAuthProbe \/ OAuthExchange \/ OAuthSave
    \/ OAuthHeartbeat \/ OAuthKeepAliveDone
    \/ DashBuild \/ DashCreds \/ DashLocate \/ DashGenOtp \/ DashEnter
    \/ DashContinue \/ DashPoll \/ DashHeartbeat \/ DashKeepAliveDone

\* The interpreter keeps running the script: a step that can be taken is
\* taken. Nothing is assumed about the user's Ctrl-C.
SpecLive == Init /\ [][Next]_vars /\ WF_vars(Step)

\* ================================================== claims checked on Spec
\* The attempt of accounts[idx] has returned to main (its locals are still
\* in att until main's pause ends).
AttemptReturned == mainPc = "pause" /\ results[idx] \in {"True", "False"}

\* C1: an attempt returns Success (True) only if an access token was obtained
\* from the exchange and save_encrypted_token completed for the account, or
\* the dashboard-only markup probe succeeded after the poller returned no
\* token; no other path returns True.
C1_SuccessOnlyStoredOrProbed ==
    (AttemptReturned /\ results[idx] = "True") =>
        \/ att.accessTok = "token" /\ att.saved
        \/ att.rt = "none" /\ att.probeOk

\* C2: in perform_oauth_login, when the exchange returned an access token and
\* save_encrypted_token then raised, the attempt has returned False and the
\* keep-alive phase was not entered (no heartbeat ran).
C2_StoreFailureIsFailed ==
    (flow = "oauth" /\ att.accessTok = "token" /\ att.saveRaised) =>
        /\ att.pc = "idle"
        /\ results[idx] = "False"
        /\ ~att.inKeepAlive
        /\ att.beats = 0

C2_Witness ==
    /\ flow = "oauth" /\ att.accessTok = "token" /\ att.saveRaised
    /\ AttemptReturned /\ results[idx] = "False"
    /\ accounts[idx].uid \notin store

\* The run of main is over.
RunEnded == mainPc \in {"done", "aborted"}

\* C3: in both flows, when the attempt of an account ended in a failure (a
\* False result or an exception raised at any step, agent construction
\* included) and no interrupt arrived, the run does not end before an attempt
\* was started for every account of the list.
C3_FailureDoesNotStopBatch ==
    (/\ RunEnded
     /\ ~cancelled
     /\ \E i \in 1..Len(results) : results[i] \in {"False", "raised"})
        => started = Len(accounts)

\* C4: once a KeyboardInterrupt was delivered during a batch run of the OAuth
\* flow, no step starts another account's attempt and no step runs another
\* heartbeat iteration.
C4_NothingStartsAfterCancel ==
    [][(flow = "oauth" /\ cancelled) =>
           (started' = started /\ att'.beats <= att.beats)]_vars

\* C11: in perform_oauth_login, when generate_session raised or its response
\* held no access token, the attempt has returned False, send_email was called
\* for the failure, and save_encrypted_token was not called in that attempt.
C11_ExchangeFailureIsFailed ==
    (flow = "oauth" /\ att.accessTok \in {"raised", "missing"}) =>
        /\ att.pc = "idle"
        /\ results[idx] = "False"
        /\ att.mails >= 1
        /\ att.saveCalls = 0 /\ ~att.saved /\ ~att.saveRaised

\* A response without an access token, with a notifier that itself raises.
C11_Witness ==
    /\ flow = "oauth" /\ att.accessTok = "missing" /\ notifyCfg = "bad_port"
    /\ AttemptReturned /\ results[idx] = "False"
    /\ att.exchanged = 1 /\ att.mails = 1 /\ att.saveCalls = 0

\* C12: in both flows, when an attempt has returned False and its agent had
\* been created, a screenshot was requested during that attempt.
C12_FailureTakesScreenshot ==
    (AttemptReturned /\ results[idx] = "False" /\ att.driver # "none") =>
        att.shots >= 1

\* C13: send_email never raises into perform_oauth_login: once
\* save_encrypted_token has completed for the account, the attempt does not
\* return False, whatever the notifier configuration.
C13_NotifierNeverFailsAttempt ==
    (flow = "oauth" /\ AttemptReturned /\ att.saved) => results[idx] = "True"

\* C14: in a run in which no KeyboardInterrupt is ever delivered, main
\* eventually ends, and it ends after having started an attempt for every
\* account read_accounts returned.
C14_BatchTerminatesOverAllAccounts ==
    ([]~cancelled) => <>(RunEnded /\ started = Len(accounts))

\* C15: with the API key or secret absent, main never loads the accounts,
\* creates no agent and starts no attempt; with both present and no
\* KeyboardInterrupt delivered, the run ends only by main reaching the end of
\* the account list, every account having been started.
C15_OnlyConfigOrCancelEndsRun ==
    /\ ~apiOk => /\ mainPc \notin {"load", "loop", "attempt", "pause"}
                 /\ accounts = <<>> /\ results = <<>>
                 /\ started = 0 /\ liveAgents = 0
    /\ (apiOk /\ ~cancelled /\ RunEnded) =>
           /\ mainPc = "done"
           /\ idx > Len(accounts)
           /\ started = Len(accounts)

\* The rows of a file that hold a user id, a password and a TOTP secret.
CompleteRows(file) == SelectSeq(file.rows, LAMBDA r : ~r.missing)

\* C16: in both flows, for an existing accounts.csv, the list read_accounts
\* returned is exactly the complete rows of the file, in file order: the
\* incomplete rows are left out, and the load itself does not end the run.
C16_IncompleteRowsSkipped ==
    /\ idx >= 1 => accounts = CompleteRows(csv)
    /\ (csv.exists /\ ~cancelled) => ~(mainPc = "aborted" /\ idx = 0)

\* C19: in both flows, whatever the continuation step did (a click returned,
\* no control was found, a click raised), the step after it is the redirect
\* token poller: the attempt does not return from the continuation step and
\* takes no failure branch there.
C19_ContinuationNeverAborts ==
    [][(mainPc = "attempt" /\ att.pc = "continue" /\ cancelled' = cancelled) =>
           /\ att'.pc = "poll" /\ att'.clickTried
           /\ mainPc' = "attempt" /\ results' = results
           /\ att'.shots = att.shots /\ att'.mails = att.mails]_vars

\* An attempt whose continuation step clicked nothing and that went on to
\* capture, exchange and store a token.
C19_Witness ==
    /\ AttemptReturned /\ results[idx] = "True"
    /\ att.clickTried /\ ~att.clicked
    /\ att.rt = "token" /\ att.saved

\* C20: in perform_oauth_login, every step taken from inside the keep-alive
\* loop (a heartbeat that works, a heartbeat whose script raises, the
\* deadline, a KeyboardInterrupt) stays in the loop or returns True to main.
C20_KeepAliveKeepsSuccess ==
    [][(flow = "oauth" /\ mainPc = "attempt" /\ att.pc = "keepalive") =>
           \/ att'.pc = "keepalive" /\ mainPc' = "attempt" /\ results' = results
           \/ att'.pc = "idle" /\ mainPc' = "pause" /\ results'[idx] = "True"]_vars

\* A KeyboardInterrupt after a heartbeat whose script raised: True returned.
C20_Witness ==
    /\ flow = "oauth" /\ cancelled
    /\ AttemptReturned /\ results[idx] = "True"
    /\ att.inKeepAlive /\ att.beats >= 1 /\ att.beatFailed

\* C21: in perform_oauth_login with KEEP_BROWSER_MINUTES > 0, every attempt
\* that returned True (after a stored token, or after the dashboard markup was
\* found without a token) went through the keep-alive loop before returning.
C21_SuccessRunsKeepAlive ==
    (flow = "oauth" /\ keepMinutes > 0 /\ AttemptReturned
        /\ results[idx] = "True") => att.inKeepAlive

\* C22: within one attempt of perform_oauth_login, save_encrypted_token is
\* called at most once and only after the exchange returned an access token;
\* the exchange is called at most once and only after the poller returned a
\* request token; the poller is called only after the injector returned True;
\* the injector runs only after the locator returned a non-empty list; the
\* locator runs only after the credentials were submitted.
C22_StepsInOrder ==
    flow = "oauth" =>
        /\ att.saveCalls <= 1 /\ att.exchanged <= 1
        /\ (att.saveCalls >= 1 \/ att.pc = "save") =>
               (att.exchanged = 1 /\ att.accessTok = "token")
        /\ (att.exchanged >= 1 \/ att.pc = "exchange") => att.rt = "token"
        /\ (att.rt # "unset" \/ att.pc = "poll") => att.otpOk
        /\ (att.injected \/ att.pc = "enter") => att.fields >= 1
        /\ (att.fields # -1 \/ att.pc = "locate") => att.submitted

\* A token stored at the end of the whole chain.
C22_Witness ==
    /\ flow = "oauth" /\ att.saved /\ att.saveCalls = 1 /\ att.exchanged = 1
    /\ att.rt = "token" /\ att.otpOk /\ att.fields >= 1 /\ att.submitted

\* C23: in both flows, main calls the orchestrator for the accounts in list
\* order, each position once (two rows with the same user id are two
\* positions); the result recorded for a position never changes once it is
\* set; and a run that ends without a KeyboardInterrupt has called the
\* orchestrator for every position of the list.
C23_EachAccountExactlyOnce ==
    [][/\ idx' >= idx
       /\ started' \in {started, started + 1}
       /\ started' = started + 1 =>
              (idx' = started' /\ results'[idx'] = "none")
       /\ \A i \in 1..Len(results) :
              results[i] # "none" => results'[i] = results[i]
       /\ (RunEnded' /\ ~cancelled') => started' = Len(accounts')]_vars

C10_NoFieldsFailsCleanly ==
    att.fields = 0 =>
        /\ att.pc = "idle"
        /\ results[idx] = "False"
        /\ att.shots >= 1
        /\ ~att.injected
        /\ ~att.clickTried /\ ~att.clicked
        /\ att.exchanged = 0
        /\ att.saveCalls = 0 /\ ~att.saved

C10_Witness ==
    /\ att.fields = 0
    /\ AttemptReturned /\ results[idx] = "False"
    /\ att.shots >= 1

\* The batch runner at rest, while one component call is followed on its own.
RunIdle ==
    /\ apiOk = TRUE /\ keepMinutes = 0 /\ notifyCfg = "no_addr"
    /\ csv = [exists |-> FALSE, rows |-> <<>>]
    /\ accounts = <<>> /\ mainPc = "done" /\ idx = 0
    /\ started = 0 /\ results = <<>> /\ att = IdleAttempt /\ store = {}
    /\ liveAgents = 0 /\ cancelled = FALSE

\* =========================================================================
\* find_otp_fields: the OTP Field Locator
\* =========================================================================
MaxPage == 3
MaxPolls == 2

\* An <input> of the page, by what the locator's queries look at:
\*   id   "totp", "pin" or none
\*   cls  "split_num"  maxlength=1 and inputmode=numeric
\*        "split_cls"  maxlength=1 and a class containing otp or digit
\*        "num"        inputmode=numeric or type tel/number, not maxlength=1
\*        "pwd"        type=password
\*        "text"       none of these (an input no XPath of the locator matches
\*                     and that has no id is invisible to it, and left out)
\*   displayed, enabled: what is_displayed() and is_enabled() answer.
\* Every kind comes usable (displayed and enabled); to keep the set of pages
\* small, a kind also comes hidden or disabled only where the two flows
\* could tell the difference.
Elements ==
    {e \in [id : {"totp", "pin", "none"},
            cls : {"split_num", "split_cls", "num", "pwd", "text"},
            displayed : BOOLEAN, enabled : BOOLEAN] :
        /\ e.id # "none" => e.cls = "text"
        /\ e.displayed \/ e.enabled
        /\ e.id = "pin" => e.enabled
        /\ e.cls = "split_num" => e.enabled
        /\ e.cls = "split_cls" => e.displayed
        /\ e.cls = "pwd" => e.displayed
        /\ e.cls = "num" => (e.displayed /\ e.enabled)
        /\ e.cls = "text" => e.id # "none"}

Pages == SeqsUpTo(Elements, MaxPage)

\* The handles of a DOM: the positions of its elements, in document order.
Positions(dom) == [i \in 1..Len(dom) |-> i]

\* driver.find_elements(By.ID, id)
ById(dom, id) == SelectSeq(Positions(dom), LAMBDA i : dom[i].id = id)

\* //input[@maxlength='1' and (@inputmode='numeric' or contains(@class,'otp')
\*                             or contains(@class,'digit'))]
XPathSplit(dom) ==
    SelectSeq(Positions(dom), LAMBDA i : dom[i].cls \in {"split_num", "split_cls"})

\* //input[@inputmode='numeric' or @type='tel' or @type='number']
XPathNumeric(dom) ==
    SelectSeq(Positions(dom), LAMBDA i : dom[i].cls \in {"split_num", "num"})

\* //input[@type='password']
XPathPassword(dom) == SelectSeq(Positions(dom), LAMBDA i : dom[i].cls = "pwd")

\* //input[@inputmode='numeric' or @type='tel' or @type='number'
\*         or @type='password']
XPathNumericOrPassword(dom) ==
    SelectSeq(Positions(dom),
              LAMBDA i : dom[i].cls \in {"split_num", "num", "pwd"})

\* [e for e in cand if e.is_displayed() and e.is_enabled()]
Usable(dom, cand) ==
    SelectSeq(cand, LAMBDA i : dom[i].displayed /\ dom[i].enabled)

\* [e for e in els if e.is_displayed()]
Displayed(dom, cand) == SelectSeq(cand, LAMBDA i : dom[i].displayed)

\* ---- OAuth flow, src/zerodha_api_login.py lines 131-166: each strategy has
\* a try of its own; a strategy whose query raises (fault = its number) is
\* skipped. A strategy yields the list it returns, or <<>> to go on.
OAuthById(dom, id) ==
    LET els == ById(dom, id)
    IN  IF els # <<>> /\ dom[els[1]].displayed /\ dom[els[1]].enabled
        THEN <<els[1]>> ELSE <<>>

\* OAuthSplit without the is_displayed / is_enabled filter.
OAuthSplit_Unfiltered(dom) ==
    LET cand == XPathSplit(dom)
    IN  IF Len(cand) >= 2 THEN cand ELSE <<>>

OAuthSplit(dom) ==
    LET cand == Usable(dom, XPathSplit(dom))
    IN  IF Len(cand) >= 2 THEN cand ELSE <<>>

OAuthFallback(dom) == Usable(dom, XPathNumericOrPassword(dom))

\* One iteration of the while loop of find_otp_fields (oauth).
OAuthFindOnce(dom, fault) ==
    LET s1 == IF fault = 1 THEN <<>> ELSE OAuthById(dom, "totp")
        s2 == IF fault = 2 THEN <<>> ELSE OAuthById(dom, "pin")
        s3 == IF fault = 3 THEN <<>> ELSE OAuthSplit(dom)
        s4 == IF fault = 4 THEN <<>> ELSE OAuthFallback(dom)
    IN  IF s1 # <<>> THEN s1
        ELSE IF s2 # <<>> THEN s2
        ELSE IF s3 # <<>> THEN s3
        ELSE s4

\* ---- Dashboard flow, src/kite_dashboard_login.py lines 120-149: one try
\* around the whole iteration; a query that raises ends the iteration.
DashById(dom, id) == ById(dom, id)

DashSplit(dom) ==
    LET els == Usable(dom, XPathSplit(dom))
    IN  IF Len(els) >= 2 THEN els ELSE <<>>

DashNumeric(dom) == Usable(dom, XPathNumeric(dom))

DashPassword(dom) == Displayed(dom, XPathPassword(dom))

\* One iteration of the while loop of find_otp_fields (dashboard).
DashFindOnce(dom, fault) ==
    IF fault = 1 THEN <<>>
    ELSE IF DashById(dom, "totp") # <<>> THEN DashById(dom, "totp")
    ELSE IF fault = 2 THEN <<>>
    ELSE IF DashById(dom, "pin") # <<>> THEN DashById(dom, "pin")
    ELSE IF fault = 3 THEN <<>>
    ELSE IF DashSplit(dom) # <<>> THEN DashSplit(dom)
    ELSE IF fault = 4 THEN <<>>
    ELSE IF DashNumeric(dom) # <<>> THEN DashNumeric(dom)
    ELSE IF fault = 5 THEN <<>>
    ELSE DashPassword(dom)

\* The queries of one iteration that may raise: 4 in the oauth flow, 5 in the
\* dashboard flow; 0 is an iteration in which none raises.
Faults == IF flow = "oauth" THEN 0..4 ELSE 0..5

FindOnce(dom, fault) ==
    IF flow = "oauth" THEN OAuthFindOnce(dom, fault)
                      ELSE DashFindOnce(dom, fault)

\* find_otp_fields is called on a page that is still loading or has loaded.
LocInit ==
    /\ flow \in Flows
    /\ loc \in [pc : {"polling"}, page : Pages, rendered : BOOLEAN,
                polls : {0}, dom : {<<>>}, answered : {TRUE},
                result : {<<>>}]
    /\ inj = NoCall /\ pol = NoCall /\ con = NoCall
    /\ RunIdle

\* The page finishes rendering: its inputs exist from now on.
LocPageRenders ==
    /\ loc.pc = "polling" /\ ~loc.rendered
    /\ loc' = [loc EXCEPT !.rendered = TRUE]
    /\ UNCHANGED <<flow, runVars, inj, pol, con>>

\* One iteration of "while time.time() < end": the live page is queried anew;
\* a non-empty strategy result is returned, else the loop sleeps.
LocPoll ==
    /\ loc.pc = "polling" /\ loc.polls < MaxPolls
    /\ \E f \in Faults :
          LET dom == IF loc.rendered THEN loc.page ELSE <<>>
              r == FindOnce(dom, f)
          IN  loc' = [loc EXCEPT !.polls = @ + 1, !.dom = dom,
                                 !.answered = (f = 0), !.result = r,
                                 !.pc = IF r # <<>> THEN "returned" ELSE "polling"]
    /\ UNCHANGED <<flow, runVars, inj, pol, con>>

\* The deadline has passed (the first iteration always runs: the timeout is
\* 18 s / 15 s): return [].
LocTimeout ==
    /\ loc.pc = "polling" /\ loc.polls >= 1
    /\ loc' = [loc EXCEPT !.pc = "returned", !.result = <<>>]
    /\ UNCHANGED <<flow, runVars, inj, pol, con>>

LocNext == LocPageRenders \/ LocPoll \/ LocTimeout

SpecLocator == LocInit /\ [][LocNext]_vars

\* ------------------------------------------- claims checked on SpecLocator
\* The visible, enabled single-character digit/OTP boxes of a DOM, in DOM
\* order.
SplitBoxes(dom) ==
    SelectSeq([i \in 1..Len(dom) |-> i],
              LAMBDA i : /\ dom[i].cls \in {"split_num", "split_cls"}
                         /\ dom[i].displayed /\ dom[i].enabled)

\* The last iteration queried a DOM with at least two visible, enabled split
\* boxes and no element with id totp or pin, and every query was answered.
C8_Case ==
    /\ loc.pc # "none" /\ loc.polls >= 1 /\ loc.answered
    /\ \A i \in 1..Len(loc.dom) : loc.dom[i].id = "none"
    /\ Len(SplitBoxes(loc.dom)) >= 2

\* C8: for every page with N >= 2 visible, enabled single-character boxes and
\* no element with id totp or pin, the iteration of find_otp_fields that
\* queries it returns exactly those N boxes, in DOM order, and nothing else.
C8_SplitBoxesReturnedExactly ==
    C8_Case => (loc.pc = "returned" /\ loc.result = SplitBoxes(loc.dom))

\* Two split boxes returned from a page that also holds another usable input.
C8_Witness ==
    /\ C8_Case /\ loc.pc = "returned"
    /\ Len(loc.result) = 2 /\ Len(loc.dom) = 3
    /\ \E i \in 1..3 : loc.dom[i].cls = "pwd" /\ loc.dom[i].displayed
                       /\ loc.dom[i].enabled

\* C9: every element of every list find_otp_fields returns was visible and
\* enabled when it was queried.
C9_ReturnedAreVisibleAndEnabled ==
    (loc.pc = "returned") =>
        \A k \in 1..Len(loc.result) :
            /\ loc.dom[loc.result[k]].displayed
            /\ loc.dom[loc.result[k]].enabled

\* The five strategies by priority, and the elements each one looks for.
Strategies == 1..5

OfStrategy(e, s) ==
    CASE s = 1 -> e.id = "totp"
      [] s = 2 -> e.id = "pin"
      [] s = 3 -> e.cls \in {"split_num", "split_cls"}
      [] s = 4 -> e.cls \in {"split_num", "num"}
      [] s = 5 -> e.cls = "pwd"

\* The visible, enabled elements of a DOM that strategy s looks for (at least
\* two of them for the split boxes), in DOM order.
StrategyMatch(dom, s) ==
    LET m == SelectSeq([i \in 1..Len(dom) |-> i],
                       LAMBDA i : /\ OfStrategy(dom[i], s)
                                  /\ dom[i].displayed /\ dom[i].enabled)
    IN  IF s = 3 /\ Len(m) < 2 THEN <<>> ELSE m

\* C17: every non-empty list find_otp_fields returns from an iteration whose
\* queries were all answered holds elements of one strategy only, and no
\* strategy of higher priority had a visible, enabled match in that DOM; in
\* particular password inputs are never returned together with numeric inputs
\* nor while a visible, enabled numeric input exists.
C17_OneStrategyByPriority ==
    (loc.pc = "returned" /\ loc.result # <<>> /\ loc.answered) =>
        \E s \in Strategies :
            /\ \A k \in 1..Len(loc.result) : OfStrategy(loc.dom[loc.result[k]], s)
            /\ \A t \in 1..(s - 1) : StrategyMatch(loc.dom, t) = <<>>

\* =========================================================================
\* enter_otp / enter_otp_into_fields: the OTP Injector
\* =========================================================================
MaxOtpLen == 3
MaxBoxes == 3

Digits == {"1", "2"}
Otps == SeqsUpTo(Digits, MaxOtpLen)

\* What a field holds before the injector runs: nothing, or a stale character.
FieldContents == {<<>>, <<"9">>}

Min(a, b) == IF a <= b THEN a ELSE b

\* fld.send_keys(text): the text is typed after what the field holds.
SendKeys(content, text) == content \o text

\* The injector returns res; j |-> the field states it leaves behind.
InjReturn(j, res) == inj' = [j EXCEPT !.pc = "returned", !.ok = res]

\* Field k of j holds c from now on and an operation was applied to it.
Touch(j, k, c) == [j EXCEPT !.content[k] = c, !.touched[k] = TRUE]

\* Field k of j was sent the keys text.
Typed(j, k, text) ==
    [j EXCEPT !.content[k] = SendKeys(@, text), !.typed[k] = @ \o text,
              !.touched[k] = TRUE]

InjInit ==
    /\ flow \in Flows
    /\ \E otp \in Otps, init \in SeqsUpTo(FieldContents, MaxBoxes) :
          inj = [pc |-> "typing", otp |-> otp, init |-> init, content |-> init,
                 typed |-> [k \in 1..Len(init) |-> <<>>],
                 touched |-> [k \in 1..Len(init) |-> FALSE],
                 i |-> 0, ok |-> FALSE]
    /\ loc = NoCall /\ pol = NoCall /\ con = NoCall
    /\ RunIdle

InjFrame == UNCHANGED <<flow, runVars, loc, pol, con>>

\* ---- src/zerodha_api_login.py, enter_otp
\* Lines 180-181: "if not fields: return False".
OAuthInjEmpty ==
    /\ flow = "oauth" /\ inj.pc = "typing" /\ Len(inj.content) = 0
    /\ InjReturn(inj, FALSE)
    /\ InjFrame

\* Lines 183-196, one field: the value is set by script (best effort), the
\* field is cleared and clicked (best effort, one try for both), then the
\* whole OTP is typed; only send_keys raising fails the call.
OAuthInjSingle ==
    /\ flow = "oauth" /\ inj.pc = "typing" /\ Len(inj.content) = 1
    /\ \E jsOk, clearOk, clickOk, keysOk \in BOOLEAN :
          LET c0 == inj.content[1]
              c1 == IF jsOk THEN inj.otp ELSE c0
              c2 == IF clearOk THEN <<>> ELSE c1
              j2 == Touch(inj, 1, c2)
          IN  IF keysOk THEN InjReturn(Typed(j2, 1, inj.otp), TRUE)
                        ELSE InjReturn(j2, FALSE)
    /\ InjFrame

\* OAuthSplitKeys sending the whole OTP to every box, as the single-field
\* branch does.
OAuthSplitKeys_Whole(otp, k) == otp

\* Line 215: fld.send_keys(ch), ch the character of the OTP at the field's
\* position.
OAuthSplitKeys(otp, k) == <<otp[k]>>

\* Lines 198-216, one turn of "for i, ch in enumerate(otp)" with i below
\* len(fields): focus, clear and click are best effort, send_keys is not.
OAuthInjSplitStep ==
    /\ flow = "oauth" /\ inj.pc = "typing" /\ Len(inj.content) >= 2
    /\ inj.i < Len(inj.otp) /\ inj.i < Len(inj.content)
    /\ \E clearOk, keysOk \in BOOLEAN :
          LET k == inj.i + 1
              c1 == IF clearOk THEN <<>> ELSE inj.content[k]
              j1 == Touch(inj, k, c1)
          IN  IF keysOk
              THEN inj' = [Typed(j1, k, OAuthSplitKeys(inj.otp, k))
                              EXCEPT !.i = @ + 1]
              ELSE InjReturn(j1, FALSE)
    /\ InjFrame

\* Lines 198-200 and 217: the OTP is used up, or i reached len(fields) and the
\* loop breaks: return True.
OAuthInjSplitDone ==
    /\ flow = "oauth" /\ inj.pc = "typing" /\ Len(inj.content) >= 2
    /\ inj.i >= Len(inj.otp) \/ inj.i >= Len(inj.content)
    /\ InjReturn(inj, TRUE)
    /\ InjFrame

\* ---- src/kite_dashboard_login.py, enter_otp_into_fields
\* Lines 158-164, one field: click (best effort), clear, send_keys; clear or
\* send_keys raising fails the call.
DashInjSingle ==
    /\ flow = "dashboard" /\ inj.pc = "typing" /\ Len(inj.content) = 1
    /\ \E clickOk, clearOk, keysOk \in BOOLEAN :
          IF ~clearOk THEN InjReturn(Touch(inj, 1, inj.content[1]), FALSE)
          ELSE IF ~keysOk THEN InjReturn(Touch(inj, 1, <<>>), FALSE)
          ELSE InjReturn(Typed(Touch(inj, 1, <<>>), 1, inj.otp), TRUE)
    /\ InjFrame

\* Line 174: fld.send_keys(ch).
DashSplitKeys(otp, k) == <<otp[k]>>

\* Lines 167-175, one turn of the loop with i below len(fields):
\* scrollIntoView, click (best effort), clear, send_keys.
DashInjSplitStep ==
    /\ flow = "dashboard" /\ inj.pc = "typing" /\ Len(inj.content) # 1
    /\ inj.i < Len(inj.otp) /\ inj.i < Len(inj.content)
    /\ \E scrollOk, clearOk, keysOk \in BOOLEAN :
          LET k == inj.i + 1
          IN  IF ~scrollOk THEN InjReturn(inj, FALSE)
              ELSE IF ~clearOk
                   THEN InjReturn(Touch(inj, k, inj.content[k]), FALSE)
              ELSE IF ~keysOk THEN InjReturn(Touch(inj, k, <<>>), FALSE)
              ELSE inj' = [Typed(Touch(inj, k, <<>>), k,
                                 DashSplitKeys(inj.otp, k))
                              EXCEPT !.i = @ + 1]
    /\ InjFrame

\* Lines 167-168 and 177: the OTP is used up or the loop breaks (at once for
\* an empty field list): return True.
DashInjSplitDone ==
    /\ flow = "dashboard" /\ inj.pc = "typing" /\ Len(inj.content) # 1
    /\ inj.i >= Len(inj.otp) \/ inj.i >= Len(inj.content)
    /\ InjReturn(inj, TRUE)
    /\ InjFrame

InjNext ==
    \/ OAuthInjEmpty \/ OAuthInjSingle \/ OAuthInjSplitStep \/ OAuthInjSplitDone
    \/ DashInjSingle \/ DashInjSplitStep \/ DashInjSplitDone

SpecInjector == InjInit /\ [][InjNext]_vars

\* ------------------------------------------ claims checked on SpecInjector
\* The injector returned True.
InjSucceeded == inj.pc = "returned" /\ inj.ok

\* C6: for an OTP of length L and M >= 2 fields, when the injector returns
\* True (no write raised), exactly the first min(L, M) fields were sent
\* exactly one character each, field i the i-th character of the OTP; the
\* fields after them were sent nothing and were not touched.
C6_OneCharPerField ==
    (InjSucceeded /\ Len(inj.content) >= 2) =>
        \A k \in 1..Len(inj.content) :
            IF k <= Min(Len(inj.otp), Len(inj.content))
            THEN inj.typed[k] = <<inj.otp[k]>>
            ELSE /\ inj.typed[k] = <<>>
                 /\ ~inj.touched[k]
                 /\ inj.content[k] = inj.init[k]

\* An OTP longer than the field list: its last character is dropped.
C6_Witness ==
    /\ InjSucceeded
    /\ Len(inj.content) = 2 /\ Len(inj.otp) = 3
    /\ inj.typed = <<<<inj.otp[1]>>, <<inj.otp[2]>>>>

\* C7: when the injector is given exactly one field and returns True, the
\* field holds exactly the OTP string, once, whichever of the best-effort
\* steps (value assignment by script, clear, click) succeeded or failed.
C7_SingleFieldHoldsOtp ==
    (InjSucceeded /\ Len(inj.content) = 1) => inj.content[1] = inj.otp

\* =========================================================================
\* wait_for_request_token: the Redirect Token Poller
\* =========================================================================
MaxUrlReads == 2

\* A URL of the browser, by what the poller looks at:
\*   rt      the request_token parameter of the query: absent, present with
\*           an empty value ("blank"), or "abc123"
\*   status  the status parameter of the query: absent or "success"
\*   frag    the text "request_token=" occurs outside the query (in the path
\*           or the fragment)
Urls == [host : {"kite"}, rt : {"absent", "blank", "abc123"},
         status : {"absent", "success"}, frag : BOOLEAN]

\* cur = "" after a failed read of driver.current_url.
EmptyUrl == [host |-> "", rt |-> "absent", status |-> "absent", frag |-> FALSE]

\* "request_token=" in cur
HasMarker(u) == u.rt # "absent" \/ u.frag

\* QueryToken taking a token wherever the marker occurs.
QueryToken_FromMarker(u) == IF HasMarker(u) THEN "abc123" ELSE "None"

\* parse_qs(urlparse(cur).query).get("request_token", [None])[0]: parse_qs
\* reads the query only and drops parameters with an empty value.
QueryToken(u) == IF u.rt = "abc123" THEN "abc123" ELSE "None"

\* parse_qs(urlparse(cur).query).get("status", [None])[0]
QueryStatus(u) == IF u.status = "success" THEN "success" ELSE "None"

PollInit ==
    /\ flow \in Flows
    /\ pol = [pc |-> "polling", reads |-> 0, failed |-> 0, cur |-> EmptyUrl,
              lastSeen |-> EmptyUrl, rt |-> "None", status |-> "None",
              final |-> EmptyUrl, timedOut |-> FALSE, branch |-> "unset"]
    /\ loc = NoCall /\ inj = NoCall /\ con = NoCall
    /\ RunIdle

PollFrame == UNCHANGED <<flow, runVars, loc, inj, con>>

\* Lines 234-240 (oauth) / 102-111 (dashboard): cur holds the marker: the
\* query is parsed and returned; else the loop sleeps.
PollCheck(p) ==
    IF HasMarker(p.cur)
    THEN pol' = [p EXCEPT !.pc = "returned", !.rt = QueryToken(p.cur),
                          !.status = QueryStatus(p.cur), !.final = p.cur]
    ELSE pol' = p

\* Lines 229-240: one turn of the while loop: driver.current_url is read in a
\* try; a failed read gives cur = "".
PollRead ==
    /\ pol.pc = "polling" /\ pol.reads < MaxUrlReads
    /\ \/ \E u \in Urls :
             PollCheck([pol EXCEPT !.reads = @ + 1, !.cur = u, !.lastSeen = u])
       \/ PollCheck([pol EXCEPT !.reads = @ + 1, !.failed = @ + 1,
                                !.cur = EmptyUrl])
    /\ PollFrame

\* Line 241 (oauth) / 113 (dashboard): the deadline has passed (the first
\* turn always runs): "return None, None, driver.current_url" reads the URL
\* once more, outside any try.
PollTimeout ==
    /\ pol.pc = "polling" /\ pol.reads >= 1
    /\ \/ \E u \in Urls :
             pol' = [pol EXCEPT !.pc = "returned", !.timedOut = TRUE,
                                !.rt = "None", !.status = "None",
                                !.final = u, !.lastSeen = u]
       \/ pol' = [pol EXCEPT !.pc = "raised", !.timedOut = TRUE,
                             !.failed = @ + 1]
    /\ PollFrame

\* src/zerodha_api_login.py lines 326-343: the caller tests "if not rt": the
\* dashboard probe for an empty token, else the exchange.
OAuthAfterPoll ==
    /\ flow = "oauth" /\ pol.pc = "returned" /\ pol.branch = "unset"
    /\ pol' = [pol EXCEPT !.branch = IF pol.rt = "None" THEN "probe"
                                                        ELSE "exchange"]
    /\ PollFrame

\* src/kite_dashboard_login.py lines 260-271: the caller ignores what the
\* poller returned and enters the 24 hour loop.
DashAfterPoll ==
    /\ flow = "dashboard" /\ pol.pc = "returned" /\ pol.branch = "unset"
    /\ pol' = [pol EXCEPT !.branch = "keepalive"]
    /\ PollFrame

PollNext == PollRead \/ PollTimeout \/ OAuthAfterPoll \/ DashAfterPoll

SpecPoller == PollInit /\ [][PollNext]_vars

\* -------------------------------------------- claims checked on SpecPoller
\* C5: wait_for_request_token never raises; when no URL read before the
\* timeout held the marker (failed reads included), the call returns an empty
\* token, an empty status and the last URL it observed.
C5_PollerNeverRaises ==
    /\ pol.pc # "raised"
    /\ (pol.pc # "none" /\ pol.timedOut) =>
           /\ pol.pc = "returned"
           /\ pol.rt = "None" /\ pol.status = "None"
           /\ pol.final = pol.lastSeen

\* C25: wait_for_request_token returns at the first read whose URL holds the
\* marker "request_token=" (it is never still polling after such a read); a
\* non-empty token it returns is the value of the request_token parameter of
\* the query of the URL it returns; a URL with the marker and no non-empty
\* request_token value in its query (marker in path or fragment, or an empty
\* value) gives an empty token at once; and perform_oauth_login then goes to
\* the dashboard probe, not to the exchange.
C25_TokenIsQueryValue ==
    /\ pol.pc = "polling" => ~HasMarker(pol.cur)
    /\ (pol.pc = "returned" /\ ~pol.timedOut) =>
           /\ HasMarker(pol.final) /\ pol.final = pol.cur
           /\ pol.final.rt \in {"absent", "blank"} => pol.rt = "None"
    /\ (pol.pc = "returned" /\ pol.rt # "None") => pol.rt = pol.final.rt
    /\ (flow = "oauth" /\ pol.pc = "returned" /\ pol.branch # "unset") =>
           (pol.branch = "exchange" <=> pol.rt # "None")

\* The first URL read holds the marker in its fragment only: an empty token
\* is returned from that read and the caller goes to the dashboard probe.
C25_Witness ==
    /\ flow = "oauth" /\ pol.pc = "returned" /\ pol.reads = 1 /\ ~pol.timedOut
    /\ pol.final.frag /\ pol.final.rt = "absent"
    /\ pol.rt = "None" /\ pol.branch = "probe"

\* =========================================================================
\* The continuation step: the click that submits the OTP
\* =========================================================================
MaxButtons == 2

\* A <button> of the page, by what the step's queries look at: its label
\* ("Continue" for a text the XPath of the first strategy matches), whether
\* its type is submit, and what is_displayed() and is_enabled() answer.
Buttons == [label : {"Continue", "other"}, submit : BOOLEAN,
            displayed : BOOLEAN, enabled : BOOLEAN]

ButtonPages == SeqsUpTo(Buttons, MaxButtons)

\* What click() would do on each button of a page: return (TRUE) or raise
\* (FALSE). A click on an element that is not displayed raises
\* ElementNotInteractableException; a click on a displayed one may still raise
\* (intercepted, stale); a displayed, disabled button takes the click without
\* an error.
ClickOutcomes(page) ==
    {ok \in [1..Len(page) -> BOOLEAN] :
        \A i \in 1..Len(page) : ~page[i].displayed => ~ok[i]}

\* //button[normalize-space()='Continue' or ...] (oauth, line 303);
\* //button[contains(text(),'Continue') or ...] (dashboard, line 190)
XPathContinue(page) ==
    SelectSeq(Positions(page), LAMBDA i : page[i].label = "Continue")

\* //button[@type='submit']
XPathSubmit(page) == SelectSeq(Positions(page), LAMBDA i : page[i].submit)

\* b.is_displayed() and b.is_enabled()
Clickable(page, cand) ==
    SelectSeq(cand, LAMBDA i : page[i].displayed /\ page[i].enabled)

\* The clicks of a loop that tries the candidates in order and stops at the
\* first click that returns.
ClicksUntilSuccess(cand, ok) ==
    LET hits == {k \in 1..Len(cand) : ok[cand[k]]}
    IN  IF hits = {} THEN cand
        ELSE SubSeq(cand, 1, CHOOSE k \in hits : \A j \in hits : k <= j)

\* The clicks that returned.
Succeeded(tried, ok) == SelectSeq(tried, LAMBDA i : ok[i])

\* ---- src/zerodha_api_login.py lines 299-323
\* Lines 303-312: the Continue buttons in DOM order; one that is displayed and
\* enabled is clicked; a click that raises moves on to the next.
OAuthClickContinueText(page, ok) ==
    ClicksUntilSuccess(Clickable(page, XPathContinue(page)), ok)

\* Lines 315-322: driver.find_element(submit XPath).click(): the first submit
\* button of the DOM is clicked as it is found (no button: NoSuchElement,
\* swallowed).
OAuthClickSubmit(page) ==
    IF XPathSubmit(page) = <<>> THEN <<>> ELSE <<XPathSubmit(page)[1]>>

\* The buttons click() is called on, in order.
OAuthClicks(page, ok) ==
    LET a == OAuthClickContinueText(page, ok)
    IN  IF Succeeded(a, ok) # <<>> THEN a ELSE a \o OAuthClickSubmit(page)

\* ---- src/kite_dashboard_login.py lines 183-214
\* wait.until(EC.element_to_be_clickable(locator)): the first match of the
\* locator, once it is displayed and enabled; TimeoutException otherwise.
DashElementToBeClickable(page, cand) ==
    IF cand # <<>> /\ page[cand[1]].displayed /\ page[cand[1]].enabled
    THEN <<cand[1]>> ELSE <<>>

\* Lines 206-209: the first button that is displayed and enabled.
DashFirstVisibleButton(page) ==
    LET c == Clickable(page, Positions(page))
    IN  IF c = <<>> THEN <<>> ELSE <<c[1]>>

\* The buttons click() is called on, in order: a strategy whose click
\* returns ends the step (return True); the first two swallow a click that
\* raises and go on; a raise in the third ends the step (return False).
DashClicks(page, ok) ==
    LET a == DashElementToBeClickable(page, XPathContinue(page))
        b == DashElementToBeClickable(page, XPathSubmit(page))
        c == DashFirstVisibleButton(page)
    IN  IF Succeeded(a, ok) # <<>> THEN a
        ELSE IF Succeeded(b, ok) # <<>> THEN a \o b
        ELSE a \o b \o c

\* The step runs on a page with some buttons.
ConInit ==
    /\ flow \in Flows
    /\ \E page \in ButtonPages : \E ok \in ClickOutcomes(page) :
          con = [pc |-> "start", page |-> page, clickOk |-> ok,
                 tried |-> <<>>, activated |-> <<>>, clicked |-> FALSE]
    /\ loc = NoCall /\ inj = NoCall /\ pol = NoCall
    /\ RunIdle

\* The step has run: the buttons click() was called on, those whose click
\* returned, and the flag the code keeps (clicked / the return value).
ConDone(tried) ==
    con' = [con EXCEPT !.pc = "returned", !.tried = tried,
                       !.activated = Succeeded(tried, con.clickOk),
                       !.clicked = (Succeeded(tried, con.clickOk) # <<>>)]

OAuthClickContinue ==
    /\ flow = "oauth" /\ con.pc = "start"
    /\ ConDone(OAuthClicks(con.page, con.clickOk))
    /\ UNCHANGED <<flow, runVars, loc, inj, pol>>

DashClickContinue ==
    /\ flow = "dashboard" /\ con.pc = "start"
    /\ ConDone(DashClicks(con.page, con.clickOk))
    /\ UNCHANGED <<flow, runVars, loc, inj, pol>>

ConNext == OAuthClickContinue \/ DashClickContinue

SpecContinue == ConInit /\ [][ConNext]_vars

\* ------------------------------------------ claims checked on SpecContinue
\* The visible, enabled buttons of a page with a property, in DOM order.
UsableContinue(page) == Clickable(page, XPathContinue(page))
UsableSubmit(page) == Clickable(page, XPathSubmit(page))
UsableButtons(page) == Clickable(page, Positions(page))

\* The control the priority order of the step selects on a page.
Preferred(page) ==
    IF UsableContinue(page) # <<>> THEN {UsableContinue(page)[i] :
                                            i \in 1..Len(UsableContinue(page))}
    ELSE IF UsableSubmit(page) # <<>> THEN {UsableSubmit(page)[i] :
                                               i \in 1..Len(UsableSubmit(page))}
    ELSE IF UsableButtons(page) # <<>> THEN {UsableButtons(page)[1]}
    ELSE {}

\* No click on a visible, enabled button raises.
NoClickFault ==
    \A i \in 1..Len(con.page) :
        (con.page[i].displayed /\ con.page[i].enabled) => con.clickOk[i]

\* C18: when the continuation step has run, at most one control was
\* activated and every activated control was visible and enabled; and when
\* no click on a visible, enabled button raises, a control is activated
\* whenever a visible, enabled button exists, and it is the one the priority
\* order selects (a Continue button, else a submit button, else the first
\* visible enabled button).
C18_OneControlByPriority ==
    con.pc = "returned" =>
        /\ Len(con.activated) <= 1
        /\ \A k \in 1..Len(con.activated) :
              /\ con.page[con.activated[k]].displayed
              /\ con.page[con.activated[k]].enabled
        /\ NoClickFault =>
              /\ UsableButtons(con.page) # <<>> => Len(con.activated) = 1
              /\ \A k \in 1..Len(con.activated) :
                    con.activated[k] \in Preferred(con.page)

====
